---- MODULE Spec2Model ----
(***************************************************************************)
(* A model of OpenRaving's planner-output parser (src/src/OutputParser.py) *)
(* and initial-state patcher (src/src/PDDLPatcher.py).                     *)
(*                                                                         *)
(* Text is a sequence of one-character strings, so that str.split,         *)
(* str.strip, str.replace, str.lower and the regular expression are        *)
(* computed the way Python computes them.                                  *)
(***************************************************************************)
EXTENDS Integers, Sequences, FiniteSets, TLC

VARIABLES
    doc,      \* the abstract trace document the text on disk was rendered from
    fs,       \* the file system: file name -> [status, text]
    parser,   \* the OutputParser object the caller holds
    mgr,      \* the InitFileMgr of the PDDLPatcher (the live InitState)
    pre,      \* mgr.facts when the last patcher operation was entered
    calls,    \* the calls the last patcher operation made on its collaborators
    last      \* the last API call: its name, arguments and outcome

vars == <<doc, fs, parser, mgr, pre, calls, last>>

----------------------------------------------------------------------------
(* Bounds of the model *)

MaxSections == 2
MaxLines == 2
MaxIndex == 3
MaxFacts == 2

----------------------------------------------------------------------------
(* Characters and Python's string primitives *)

stateListDelimiter == <<"*","*","*"," ","S","t","a","t","e","s"," ","*","*","*">>
stateDelimiter == <<"S","t","a","t","e">>

NL == <<"\n">>

WhiteSpace == {" ", "\t", "\n", "\r"}

UpperCase == <<"A","B","C","D","E","F","G","H","I","J","K","L","M",
               "N","O","P","Q","R","S","T","U","V","W","X","Y","Z">>
LowerCase == <<"a","b","c","d","e","f","g","h","i","j","k","l","m",
               "n","o","p","q","r","s","t","u","v","w","x","y","z">>

\* str.lower() on one character
ToLower ==
    [c \in {UpperCase[i] : i \in 1..Len(UpperCase)} |->
        LowerCase[CHOOSE i \in 1..Len(UpperCase) : UpperCase[i] = c]]

lowerChar(c) == IF c \in DOMAIN ToLower THEN ToLower[c] ELSE c

\* str.lower()
lower(s) == [i \in 1..Len(s) |-> lowerChar(s[i])]

\* str.replace(old, new) for one-character old and new
replace(s, old, new) == [i \in 1..Len(s) |-> IF s[i] = old THEN new ELSE s[i]]

RECURSIVE firstKept(_, _)
\* the first position from i on that holds no whitespace (Len(s) + 1: none)
firstKept(s, i) ==
    IF i > Len(s) THEN i
    ELSE IF s[i] \notin WhiteSpace THEN i ELSE firstKept(s, i + 1)

RECURSIVE lastKept(_, _)
\* the last position up to i that holds no whitespace (0: none)
lastKept(s, i) ==
    IF i < 1 THEN i
    ELSE IF s[i] \notin WhiteSpace THEN i ELSE lastKept(s, i - 1)

\* str.strip(): leading and trailing whitespace removed
strip(s) == SubSeq(s, firstKept(s, 1), lastKept(s, Len(s)))

RECURSIVE splitFrom(_, _, _, _)
\* the pieces of s from position start on, the scan being at position i
splitFrom(s, sep, start, i) ==
    IF i + Len(sep) - 1 > Len(s)
    THEN <<SubSeq(s, start, Len(s))>>
    ELSE IF s[i] = sep[1] /\ SubSeq(s, i, i + Len(sep) - 1) = sep
         THEN <<SubSeq(s, start, i - 1)>>
                  \o splitFrom(s, sep, i + Len(sep), i + Len(sep))
         ELSE splitFrom(s, sep, start, i + 1)

\* str.split(sep): left to right, non-overlapping; always at least one piece
split(s, sep) == splitFrom(s, sep, 1, 1)

\* propPattern.match(s) with propPattern = re.compile("\(.*\)\Z"):
\* "(" first, ")" last, and no line break in between ("." excludes "\n")
propPatternMatch(s) ==
    /\ Len(s) >= 2
    /\ s[1] = "("
    /\ s[Len(s)] = ")"
    /\ \A i \in 2..(Len(s) - 1) : s[i] # "\n"

----------------------------------------------------------------------------
(* The State class (State.py, imported by OutputParser.py): a set of       *)
(* proposition strings.                                                    *)

State == {}
addProposition(s, p) == s \cup {p}
size(s) == Cardinality(s)
getAllProps(s) == s

\* the explicit negative literal of a proposition
Neg(p) == <<"(","n","o","t"," ">> \o p \o <<")">>
IsNeg(l) == Len(l) >= 7 /\ SubSeq(l, 1, 5) = <<"(","n","o","t"," ">>
Atom(l) == IF IsNeg(l) THEN SubSeq(l, 6, Len(l) - 1) ELSE l
Complement(l) == IF IsNeg(l) THEN Atom(l) ELSE Neg(l)

\* completion under the closed-world assumption: every proposition of the
\* universe that the state does not hold is added in its negative form
makeCWAExplicit(s, propSet) == s \cup {Neg(p) : p \in propSet \ s}

----------------------------------------------------------------------------
(* The file system and tryIO *)

FileStatus == {"ok", "openfail", "iofail"}

\* what a file name leads to; a name the file system does not hold cannot
\* be opened
fileOf(fsys, fname) ==
    IF fname \in DOMAIN fsys THEN fsys[fname]
    ELSE [status |-> "openfail", text |-> <<>>]

\* tryIO(fname, mode, strBufPtr): the outcome, the value returned, the file
\* system afterwards, and whether a handle was opened and closed
tryIO(fsys, fname, mode, strBufPtr) ==
    LET f == fileOf(fsys, fname)
        none == [fs |-> fsys, outcome |-> "ok", retVal |-> <<>>,
                 opened |-> FALSE, closed |-> FALSE, printed |-> FALSE]
    IN  IF mode \notin {"read", "write"}
        \* neither branch runs; the finally block closes an unbound fhandle
        THEN [none EXCEPT !.outcome = "UnboundLocalError"]
        ELSE IF f.status = "openfail"
        \* open() raises IOError: the handler prints and calls sys.exit(-1),
        \* then the finally block closes an unbound fhandle
        THEN [none EXCEPT !.outcome = "UnboundLocalError", !.printed = TRUE]
        ELSE IF f.status = "iofail"
        \* read()/write() raises IOError: sys.exit(-1), then the handle is closed
        THEN [none EXCEPT !.outcome = "SystemExit", !.printed = TRUE,
                          !.opened = TRUE, !.closed = TRUE,
                          !.fs = IF mode = "write" /\ fname \in DOMAIN fsys
                                 THEN [fsys EXCEPT ![fname].text = <<>>]
                                 ELSE fsys]
        ELSE IF mode = "read"
        THEN [none EXCEPT !.retVal = f.text, !.opened = TRUE, !.closed = TRUE]
        ELSE [none EXCEPT !.opened = TRUE, !.closed = TRUE,
                          !.fs = [fsys EXCEPT ![fname].text = strBufPtr]]

----------------------------------------------------------------------------
(* OutputParser *)

NoParser == [propSet |-> {}, fname |-> "", exists |-> FALSE, stateList |-> <<>>]

\* one line of a state section, as getStateFromStr normalizes it
normalize(rawPropositionStr) ==
    LET propositionStr ==
            lower(replace(replace(strip(rawPropositionStr), "(", " "), ")", " "))
    IN  <<"(">> \o strip(propositionStr) \o <<")">>

RECURSIVE stateFromLines(_, _, _)
stateFromLines(lines, s, reported) ==
    IF lines = <<>> THEN [reported |-> reported, state |-> s]
    ELSE LET propositionStr == normalize(Head(lines))
         IN  IF propositionStr # <<"(", ")">>
             THEN IF propPatternMatch(propositionStr)
                  THEN stateFromLines(Tail(lines),
                                      addProposition(s, propositionStr), reported)
                  ELSE stateFromLines(Tail(lines), s,
                                      reported \cup {propositionStr})
             ELSE stateFromLines(Tail(lines), s, reported)

\* getStateFromStr(stateStr): the state, and the lines printed as
\* "not a proposition"
getStateFromStr(stateStr) == stateFromLines(split(stateStr, NL), State, {})

RECURSIVE statesFrom(_, _, _)
statesFrom(stateStrs, stateList, reported) ==
    IF stateStrs = <<>> THEN [stateList |-> stateList, reported |-> reported]
    ELSE LET r == getStateFromStr(Head(stateStrs))
         IN  statesFrom(Tail(stateStrs),
                        IF size(r.state) > 0 THEN Append(stateList, r.state)
                        ELSE stateList,
                        reported \cup r.reported)

\* parseFFOutput(self, fileStr)
parseFFOutput(fsys, self, fileStr) ==
    LET io == IF self.fname # "" THEN tryIO(fsys, self.fname, "read", <<>>)
              ELSE [outcome |-> "ok", retVal |-> <<>>]
        pieces == split(io.retVal, stateListDelimiter)
        raise(e) == [outcome |-> e, reported |-> {}, self |-> self, ret |-> <<>>]
    IN  IF io.outcome # "ok" THEN raise(io.outcome)
        \* fstr.split(stateListDelimiter)[1]
        ELSE IF self.fname # "" /\ Len(pieces) < 2 THEN raise("IndexError")
        \* relevantStr is bound by neither branch
        ELSE IF self.fname = "" /\ fileStr = <<>> THEN raise("UnboundLocalError")
        ELSE LET relevantStr == IF fileStr # <<>> THEN fileStr ELSE pieces[2]
                 r == statesFrom(split(relevantStr, stateDelimiter), <<>>, {})
             IN  [outcome |-> "ok",
                  reported |-> r.reported,
                  self |-> [self EXCEPT !.stateList = r.stateList],
                  ret |-> r.stateList]

\* OutputParser(fname)
OutputParserInit(fsys, fname) ==
    LET self == [NoParser EXCEPT !.exists = TRUE, !.fname = fname]
    IN  IF fname # "" THEN parseFFOutput(fsys, self, <<>>)
        ELSE [outcome |-> "ok", reported |-> {}, self |-> self, ret |-> <<>>]

RECURSIVE unionFrom(_, _)
unionFrom(stateList, sProps) ==
    IF stateList = <<>> THEN sProps
    ELSE unionFrom(Tail(stateList), sProps \cup getAllProps(Head(stateList)))

\* getPropSet(self)
getPropSet(self) ==
    IF Len(self.stateList) = 0
    \* self.stateList[0] on an empty list
    THEN [outcome |-> "IndexError", ret |-> {}]
    ELSE [outcome |-> "ok",
          ret |-> unionFrom(self.stateList, getAllProps(self.stateList[1]))]

\* Python's list[index]: a negative index counts from the end
listIndex(n, index) == IF index < 0 THEN n + index ELSE index

\* getStateByIndex(self, index)
getStateByIndex(self, index) ==
    LET n == Len(self.stateList)
    IN  IF n > index + 1
        THEN IF listIndex(n, index) \in 0..(n - 1)
             THEN [outcome |-> "ok", ret |-> self.stateList[listIndex(n, index) + 1]]
             ELSE [outcome |-> "IndexError", ret |-> {}]
        \* prints "Error: state index out of range" and returns -1
        ELSE [outcome |-> "error", ret |-> {}]

----------------------------------------------------------------------------
(* The InitFileMgr class (InitFileMgr.py, imported by PDDLPatcher.py): the *)
(* live InitState, a set of literals, with its checkpoint.                 *)

RECURSIVE symbolEnd(_, _)
\* the position where the symbol that starts at position i of a ends
symbolEnd(a, i) ==
    IF i > Len(a) \/ a[i] \in {" ", ")"} THEN i ELSE symbolEnd(a, i + 1)

\* the head symbol of a fact: the first symbol of its atom
headSymbol(l) == SubSeq(Atom(l), 2, symbolEnd(Atom(l), 2) - 1)

\* InitFileMgr(pddlFile): checkpoint 0 holds the facts of the problem file
InitFileMgr(problemFacts) ==
    [facts |-> problemFacts, base |-> problemFacts, checkpoint |-> 0]

\* merge of a delta state, last write wins: a literal of the delta replaces
\* the contradicting literal of InitState
patchInitState(m, deltaState) ==
    [m EXCEPT !.facts = (@ \ {Complement(l) : l \in deltaState}) \cup deltaState]

purgeFactsWithSymbol(m, symbol) ==
    [m EXCEPT !.facts = {l \in @ : headSymbol(l) # symbol}]

\* rollbackTo(n): the facts accumulated since checkpoint n are discarded
rollbackTo(m, n) ==
    IF n = 0 THEN [m EXCEPT !.facts = m.base, !.checkpoint = 0] ELSE m

----------------------------------------------------------------------------
(* PDDLPatcher.  A patcher operation runs on w = [mgr, calls, outcome]:    *)
(* the manager, the calls made so far on the manager and on State objects, *)
(* and "ok" or the exception that ended the operation.                     *)

NoArgs == [name |-> "", obj |-> "", num |-> 0, sym |-> <<>>, arg |-> {},
           univ |-> {}]

mgrCall(name) == [NoArgs EXCEPT !.name = name, !.obj = "mgr"]
stateCall(name) == [NoArgs EXCEPT !.name = name, !.obj = "state"]

\* self.initFileMgr.rollbackTo(n)
callRollbackTo(w, n) ==
    [w EXCEPT !.mgr = rollbackTo(@, n),
              !.calls = Append(@, [mgrCall("rollbackTo") EXCEPT !.num = n])]

\* self.initFileMgr.patchInitState(deltaState)
callPatchInitState(w, deltaState) ==
    [w EXCEPT !.mgr = patchInitState(@, deltaState),
              !.calls = Append(@, [mgrCall("patchInitState")
                                      EXCEPT !.arg = deltaState])]

\* self.initFileMgr.purgeFactsWithSymbol(symbol)
callPurgeFactsWithSymbol(w, symbol) ==
    [w EXCEPT !.mgr = purgeFactsWithSymbol(@, symbol),
              !.calls = Append(@, [mgrCall("purgeFactsWithSymbol")
                                      EXCEPT !.sym = symbol])]

\* deltaState.makeCWAExplicit(propSet)
callMakeCWAExplicit(w, deltaState, propSet) ==
    [w EXCEPT !.calls = Append(@, [stateCall("makeCWAExplicit")
                                      EXCEPT !.arg = deltaState,
                                             !.univ = propSet])]

raise(w, e) == [w EXCEPT !.outcome = e]

\* the value v under the name F gives it
withValue(v, F(_)) == CHOOSE y \in {F(x) : x \in {v}} : TRUE

\* the next statement runs from w unless an exception has ended the operation
andThen(w, next(_)) ==
    withValue(w, LAMBDA w1 : IF w1.outcome # "ok" THEN w1 ELSE next(w1))

\* patchWithFFOutput(ffOutputFile, stateNum), op being the outcome of
\* OutputParser(ffOutputFile)
patchWithFFOutput(w, op, stateNum) ==
    IF op.outcome # "ok" THEN raise(w, op.outcome)
    ELSE withValue(getPropSet(op.self), LAMBDA propSet :
         IF propSet.outcome # "ok" THEN raise(w, propSet.outcome)
         ELSE withValue(getStateByIndex(op.self, stateNum), LAMBDA deltaState :
              IF deltaState.outcome = "IndexError" THEN raise(w, "IndexError")
              \* getStateByIndex returned -1, which has no makeCWAExplicit
              ELSE IF deltaState.outcome = "error" THEN raise(w, "AttributeError")
              ELSE callPatchInitState(
                       callMakeCWAExplicit(w, deltaState.ret, propSet.ret),
                       makeCWAExplicit(deltaState.ret, propSet.ret))))

RECURSIVE addAll(_, _)
\* map(lambda x: deltaState.addProposition(x), inputFromContinuous)
addAll(deltaState, inputFromContinuous) ==
    IF inputFromContinuous = <<>> THEN deltaState
    ELSE addAll(addProposition(deltaState, Head(inputFromContinuous)),
                Tail(inputFromContinuous))

\* patchWithProps(inputFromContinuous)
patchWithProps(w, inputFromContinuous) ==
    callPatchInitState(w, addAll(State, inputFromContinuous))

\* the facts merged before the trace state
patchStateNumWithProps_factsFirst(w, op, stateNum, factsFromContinuous) ==
    andThen(andThen(callRollbackTo(w, 0),
                    LAMBDA w1 : patchWithProps(w1, factsFromContinuous)),
            LAMBDA w2 : patchWithFFOutput(w2, op, stateNum))

\* patchStateNumWithProps(stateNum, ffOutputFile, factsFromContinuous), op
\* being the outcome of OutputParser(ffOutputFile)
patchStateNumWithProps(w, op, stateNum, factsFromContinuous) ==
    andThen(andThen(callRollbackTo(w, 0),
                    LAMBDA w1 : patchWithFFOutput(w1, op, stateNum)),
            LAMBDA w2 : patchWithProps(w2, factsFromContinuous))

\* the purge after the merge
patchWithNewInterpretation_mergeFirst(w, symbol, factsFromContinuous) ==
    andThen(patchWithProps(w, factsFromContinuous),
            LAMBDA w1 : callPurgeFactsWithSymbol(w1, symbol))

\* patchWithNewInterpretation(symbol, factsFromContinuous)
patchWithNewInterpretation(w, symbol, factsFromContinuous) ==
    andThen(callPurgeFactsWithSymbol(w, symbol),
            LAMBDA w1 : patchWithProps(w1, factsFromContinuous))

----------------------------------------------------------------------------
(* Trace documents: the planner output the parser is run on *)

chAtA == <<"(","a","t"," ","a",")">>
chOnBC == <<"(","o","n"," ","b"," ","c",")">>
chAtB == <<"(","a","t"," ","b",")">>
chNotAFact == <<"n","o","t","-","a","-","f","a","c","t">>

\* the lines a state section is made of: the raw text of the line, whether it
\* is a parenthesized proposition, and the proposition it stands for
Lines ==
    { [raw |-> chOnBC, wellFormed |-> TRUE, canon |-> chOnBC],
      [raw |-> <<" ","(","A","T"," ","a",")"," ">>, wellFormed |-> TRUE,
       canon |-> chAtA],
      [raw |-> chNotAFact, wellFormed |-> FALSE,
       canon |-> <<"(">> \o chNotAFact \o <<")">>] }

RECURSIVE SeqsUpTo(_, _)
\* the sequences over S of length at most n
SeqsUpTo(S, n) ==
    IF n = 0 THEN {<<>>}
    ELSE LET shorter == SeqsUpTo(S, n - 1)
         IN  shorter \cup {Append(q, x) : q \in shorter, x \in S}

Sections == SeqsUpTo(Lines, MaxLines)

Docs == [hasDelimiter : BOOLEAN, sections : SeqsUpTo(Sections, MaxSections)]

Preamble == <<"f","f",":","\n">>

RECURSIVE renderLines(_)
renderLines(lines) ==
    IF lines = <<>> THEN <<>>
    ELSE Head(lines).raw \o NL \o renderLines(Tail(lines))

\* the text of a section that follows its "State" token
sectionText(section) == NL \o renderLines(section)

renderSection(section) == stateDelimiter \o sectionText(section)

RECURSIVE renderSections(_)
renderSections(sections) ==
    IF sections = <<>> THEN <<>>
    ELSE renderSection(Head(sections)) \o renderSections(Tail(sections))

\* the text of a document: what precedes the state list, the state-list
\* delimiter, then one section per state
render(d) ==
    Preamble
        \o (IF d.hasDelimiter THEN stateListDelimiter \o NL ELSE <<>>)
        \o renderSections(d.sections)

TraceFile == "trace.out"

\* the record of an API call: the arguments it was given (fname, arg, index,
\* mode, sym, facts), what it returned or raised (outcome, ret, trace), what
\* it printed (reported), the parser's trace before it (before), and
\* whether it opened and closed a file handle
NoCall == [fname |-> "", mode |-> "", outcome |-> "ok", opened |-> FALSE,
           closed |-> FALSE, reported |-> {}, ret |-> {}, index |-> 0,
           facts |-> <<>>, sym |-> <<>>, arg |-> <<>>, op |-> "none",
           trace |-> <<>>, before |-> <<>>]

InitParser ==
    /\ doc \in Docs
    /\ fs = [f \in {TraceFile} |-> [status |-> "ok", text |-> render(doc)]]
    /\ parser = NoParser
    /\ mgr = InitFileMgr({})
    /\ pre = mgr
    /\ calls = <<>>
    /\ last = NoCall

\* op = OutputParser(fname): the caller holds the new object only when the
\* constructor returns
Construct(fname) ==
    \E r \in {OutputParserInit(fs, fname)} :
        /\ parser' = IF r.outcome = "ok" THEN r.self ELSE parser
        /\ last' = [NoCall EXCEPT !.op = "OutputParser", !.outcome = r.outcome,
                                  !.fname = fname, !.trace = r.ret,
                                  !.reported = r.reported,
                                  !.before = parser.stateList]
        /\ UNCHANGED <<doc, fs, mgr, pre, calls>>

\* op.parseFFOutput(fileStr)
ParseFFOutput(fileStr) ==
    /\ parser.exists
    /\ \E r \in {parseFFOutput(fs, parser, fileStr)} :
           /\ parser' = r.self
           /\ last' = [NoCall EXCEPT !.op = "parseFFOutput", !.outcome = r.outcome,
                                     !.fname = parser.fname, !.arg = fileStr, !.trace = r.ret,
                                     !.reported = r.reported,
                                     !.before = parser.stateList]
    /\ UNCHANGED <<doc, fs, mgr, pre, calls>>

\* op.getStateFromStr(stateStr) on the text of one section
GetStateFromStr(stateStr) ==
    /\ parser.exists
    /\ \E r \in {getStateFromStr(stateStr)} :
           last' = [NoCall EXCEPT !.op = "getStateFromStr", !.arg = stateStr,
                                  !.ret = r.state, !.reported = r.reported,
                                  !.before = parser.stateList]
    /\ UNCHANGED <<doc, fs, parser, mgr, pre, calls>>

\* op.getPropSet()
GetPropSet ==
    /\ parser.exists
    /\ \E r \in {getPropSet(parser)} :
           last' = [NoCall EXCEPT !.op = "getPropSet", !.outcome = r.outcome,
                                  !.ret = r.ret, !.before = parser.stateList]
    /\ UNCHANGED <<doc, fs, parser, mgr, pre, calls>>

\* op.getStateByIndex(index)
GetStateByIndex(index) ==
    /\ parser.exists
    /\ \E r \in {getStateByIndex(parser, index)} :
           last' = [NoCall EXCEPT !.op = "getStateByIndex", !.outcome = r.outcome,
                                  !.index = index, !.ret = r.ret,
                                  !.before = parser.stateList]
    /\ UNCHANGED <<doc, fs, parser, mgr, pre, calls>>

IndexRange == (0 - MaxIndex)..MaxIndex

NextParser ==
    \/ \E fname \in {"", TraceFile} : Construct(fname)
    \/ \E fileStr \in {<<>>, render(doc)} : ParseFFOutput(fileStr)
    \/ \E i \in 1..Len(doc.sections) :
           GetStateFromStr(sectionText(doc.sections[i]))
    \/ GetPropSet
    \/ \E index \in IndexRange : GetStateByIndex(index)

SpecParser == InitParser /\ [][NextParser]_vars

----------------------------------------------------------------------------
(* The patcher's session: a PDDLPatcher on a problem file, and the planner *)
(* output files it is pointed at.                                          *)

lineAtA == [raw |-> <<" ","(","A","T"," ","a",")"," ">>, wellFormed |-> TRUE,
            canon |-> chAtA]
lineOnBC == [raw |-> chOnBC, wellFormed |-> TRUE, canon |-> chOnBC]

PlanFile == "plan.out"
MissingFile == "missing.out"

PlanDoc == [hasDelimiter |-> TRUE,
            sections |-> << <<lineAtA>>, <<lineAtA, lineOnBC>>, <<lineOnBC>> >>]

PatchFS == [f \in {PlanFile} |-> [status |-> "ok", text |-> render(PlanDoc)]]

\* the planner output a patch may name: a trace of three states, no file at
\* all, and a file that is not there
PatchFiles == {PlanFile, "", MissingFile}

\* OutputParser(ffOutputFile) for each of them
ParsedFiles == [f \in PatchFiles |-> OutputParserInit(PatchFS, f)]

StateNums == (0 - 1)..MaxIndex

ProblemFacts == SUBSET {chAtB}

FactLiterals == {chOnBC, Neg(chOnBC)}
FactLists == SeqsUpTo(FactLiterals, MaxFacts)

Symbols == {<<"a","t">>, <<"o","n">>}

InitPatcher ==
    /\ doc = PlanDoc
    /\ fs = PatchFS
    /\ parser = NoParser
    /\ mgr \in {InitFileMgr(b) : b \in ProblemFacts}
    /\ pre = mgr
    /\ calls = <<>>
    /\ last = NoCall

\* the world a patcher operation starts in
Entry == [mgr |-> mgr, calls |-> <<>>, outcome |-> "ok"]

\* one patcher operation has run to its end w
Ran(w) ==
    /\ mgr' = w.mgr
    /\ calls' = w.calls
    /\ pre' = mgr
    /\ UNCHANGED <<doc, fs, parser>>

PatchWithFFOutput(ffOutputFile, stateNum) ==
    \E w \in {patchWithFFOutput(Entry, ParsedFiles[ffOutputFile], stateNum)} :
        /\ Ran(w)
        /\ last' = [NoCall EXCEPT !.op = "patchWithFFOutput",
                                  !.outcome = w.outcome]

PatchWithProps(inputFromContinuous) ==
    \E w \in {patchWithProps(Entry, inputFromContinuous)} :
        /\ Ran(w)
        /\ last' = [NoCall EXCEPT !.op = "patchWithProps",
                                  !.outcome = w.outcome,
                                  !.facts = inputFromContinuous]

PatchStateNumWithProps(stateNum, ffOutputFile, factsFromContinuous) ==
    \E w \in {patchStateNumWithProps(Entry, ParsedFiles[ffOutputFile], stateNum,
                                     factsFromContinuous)} :
        /\ Ran(w)
        /\ last' = [NoCall EXCEPT !.op = "patchStateNumWithProps",
                                  !.outcome = w.outcome,
                                  !.facts = factsFromContinuous]

PatchWithNewInterpretation(symbol, factsFromContinuous) ==
    \E w \in {patchWithNewInterpretation(Entry, symbol, factsFromContinuous)} :
        /\ Ran(w)
        /\ last' = [NoCall EXCEPT !.op = "patchWithNewInterpretation",
                                  !.outcome = w.outcome, !.sym = symbol,
                                  !.facts = factsFromContinuous]

NextPatcher ==
    \/ \E f \in PatchFiles, n \in StateNums : PatchWithFFOutput(f, n)
    \/ \E facts \in FactLists : PatchWithProps(facts)
    \/ \E n \in StateNums, f \in PatchFiles, facts \in FactLists :
           PatchStateNumWithProps(n, f, facts)
    \/ \E symbol \in Symbols, facts \in FactLists :
           PatchWithNewInterpretation(symbol, facts)

SpecPatcher == InitPatcher /\ [][NextPatcher]_vars

----------------------------------------------------------------------------
(* File access on its own: tryIO on files that open or not, read or not    *)

IOFiles == {"a.txt", "b.txt"}
IOTexts == {<<>>, chAtA}

InitIO ==
    /\ doc = [hasDelimiter |-> FALSE, sections |-> <<>>]
    /\ fs \in [IOFiles -> [status : FileStatus, text : IOTexts]]
    /\ parser = NoParser
    /\ mgr = InitFileMgr({})
    /\ pre = mgr
    /\ calls = <<>>
    /\ last = NoCall

\* tryIO(fname, mode, strBufPtr)
TryIO(fname, mode, strBufPtr) ==
    \E r \in {tryIO(fs, fname, mode, strBufPtr)} :
        /\ fs' = r.fs
        /\ last' = [NoCall EXCEPT !.op = "tryIO", !.outcome = r.outcome,
                                  !.fname = fname, !.mode = mode,
                                  !.arg = strBufPtr, !.trace = r.retVal,
                                  !.opened = r.opened, !.closed = r.closed]
        /\ UNCHANGED <<doc, parser, mgr, pre, calls>>

NextIO ==
    \E fname \in IOFiles \cup {MissingFile}, mode \in {"read", "write", "append"},
       strBufPtr \in IOTexts : TryIO(fname, mode, strBufPtr)

SpecIO == InitIO /\ [][NextIO]_vars

----------------------------------------------------------------------------
(* Properties of the parser, under SpecParser *)

\* the last call parsed a source: the bound file or a literal text
Parsed ==
    /\ last.op \in {"OutputParser", "parseFFOutput"}
    /\ last.fname # "" \/ last.arg # <<>>

ParsedFile == Parsed /\ last.arg = <<>>

\* the state-list delimiter is there and every section holds well-formed
\* proposition lines, at least one
WellFormedDoc(d) ==
    /\ d.hasDelimiter
    /\ \A i \in 1..Len(d.sections) :
           /\ Len(d.sections[i]) >= 1
           /\ \A j \in 1..Len(d.sections[i]) : d.sections[i][j].wellFormed

sectionProps(section) == {section[j].canon : j \in 1..Len(section)}

TraceIsSections(trace, d) ==
    /\ Len(trace) = Len(d.sections)
    /\ \A i \in 1..Len(d.sections) : trace[i] = sectionProps(d.sections[i])

\* C1: a well-formed trace text of k sections parses to a Trace of exactly
\* the k states of its sections, in order, each the normalized, deduplicated
\* set of its section's lines, whether the text is read from the bound file
\* or passed as literal text.
C1_ParseYieldsSections ==
    (Parsed /\ WellFormedDoc(doc)) =>
        /\ last.outcome = "ok"
        /\ TraceIsSections(last.trace, doc)
        /\ TraceIsSections(parser.stateList, doc)

\* The part of C1 the code keeps: the same, for the bound file alone.
FileParseYieldsSections ==
    (ParsedFile /\ WellFormedDoc(doc)) =>
        /\ last.outcome = "ok"
        /\ TraceIsSections(last.trace, doc)
        /\ TraceIsSections(parser.stateList, doc)

IndexInRange == last.index \in 0..(Len(parser.stateList) - 1)

\* C2: for every index i of a trace of length n >= 1 with 0 <= i <= n-1, the
\* last one included, stateAt returns the i-th state and not the
\* out-of-range error.
C2_ValidIndexReturnsState ==
    (last.op = "getStateByIndex" /\ IndexInRange) =>
        /\ last.outcome = "ok"
        /\ last.ret = parser.stateList[last.index + 1]

\* C3: for every index outside [0, n), at or beyond n or negative, stateAt
\* reports the out-of-range error: it returns no state of the trace and
\* makes no unchecked list access.
C3_OutOfRangeReported ==
    (last.op = "getStateByIndex" /\ ~IndexInRange) => last.outcome = "error"

\* The part of C3 the code keeps: an index at or beyond n is reported.
IndexBeyondEndReported ==
    (last.op = "getStateByIndex" /\ last.index >= Len(parser.stateList)) =>
        last.outcome = "error"

\* C4: globalPropositions is exactly the union of the proposition sets of
\* the states of the trace, the empty set for an empty trace (no failure),
\* and holds every proposition of every state.
C4_GlobalPropositionsIsUnion ==
    last.op = "getPropSet" =>
        /\ last.outcome = "ok"
        /\ last.ret = UNION {parser.stateList[i] : i \in 1..Len(parser.stateList)}

\* The part of C4 the code keeps: the union, for a trace that is not empty.
NonEmptyTraceUnion ==
    (last.op = "getPropSet" /\ Len(parser.stateList) >= 1) =>
        /\ last.outcome = "ok"
        /\ last.ret = UNION {parser.stateList[i] : i \in 1..Len(parser.stateList)}

\* C5: when a state section is converted, a non-empty line that is no
\* parenthesized proposition is reported and not added to the state, the
\* conversion is not aborted, and every well-formed line of the section is
\* in the state.
C5_MalformedLineSkipped ==
    \A i \in 1..Len(doc.sections) :
        (last.op = "getStateFromStr" /\ last.arg = sectionText(doc.sections[i])) =>
            /\ last.outcome = "ok"
            /\ \A j \in 1..Len(doc.sections[i]) :
                   LET line == doc.sections[i][j]
                   IN  IF line.wellFormed THEN line.canon \in last.ret
                       ELSE line.canon \notin last.ret /\ last.reported # {}

\* The part of C5 the code keeps: no line aborts the conversion and every
\* well-formed line is in the state.
WellFormedLinesKept ==
    \A i \in 1..Len(doc.sections) :
        (last.op = "getStateFromStr" /\ last.arg = sectionText(doc.sections[i])) =>
            /\ last.outcome = "ok"
            /\ \A j \in 1..Len(doc.sections[i]) :
                   doc.sections[i][j].wellFormed =>
                       doc.sections[i][j].canon \in last.ret

\* C6: when the state-list delimiter is absent, parseTrace ends in the error
\* surfaced to the caller, for the bound file and for literal text alike: it
\* returns no Trace and leaves the parser's stored trace as it was.
C6_MissingDelimiterSurfaced ==
    (Parsed /\ ~doc.hasDelimiter) =>
        /\ last.outcome = "IndexError"
        /\ last.trace = <<>>
        /\ parser.stateList = last.before

\* The part of C6 the code keeps: the same, for the bound file alone.
FileMissingDelimiterSurfaced ==
    (ParsedFile /\ ~doc.hasDelimiter) =>
        /\ last.outcome = "IndexError"
        /\ last.trace = <<>>
        /\ parser.stateList = last.before

----------------------------------------------------------------------------
(* Properties of the patcher, under SpecPatcher *)

elements(seq) == {seq[i] : i \in 1..Len(seq)}

IsCall(c, obj, name) == c.obj = obj /\ c.name = name

\* what makeCWAExplicit makes of the state and universe it was called with
completed(c) == c.arg \cup {Neg(p) : p \in c.univ \ c.arg}

ReplacementDone ==
    /\ last.outcome = "ok"
    /\ Len(calls) = 2
    /\ IsCall(calls[1], "mgr", "purgeFactsWithSymbol") /\ calls[1].sym = last.sym
    /\ IsCall(calls[2], "mgr", "patchInitState")
    /\ calls[2].arg = elements(last.facts)
    /\ \A f \in pre.facts :
           (headSymbol(f) = last.sym /\ f \notin elements(last.facts)) =>
               f \notin mgr.facts
    /\ elements(last.facts) \subseteq mgr.facts
    /\ mgr.facts \subseteq pre.facts \cup elements(last.facts)
    /\ mgr.checkpoint = pre.checkpoint
    /\ mgr.base = pre.base

\* C8 as stated: patchWithReplacement(symbol, facts) purges and then merges:
\* no prior fact headed by symbol remains, exactly the given facts are
\* added, every prior fact headed by another symbol is still present, and
\* the checkpoint number is unchanged.
C8_ReplacementKeepsOtherSymbols ==
    last.op = "patchWithNewInterpretation" =>
        /\ ReplacementDone
        /\ \A f \in pre.facts : headSymbol(f) # last.sym => f \in mgr.facts

\* C8 as amended: the same, except that a prior fact headed by another symbol
\* is still present only if none of the given facts contradicts it (the
\* merge is last-write-wins).
C8_ReplacementKeepsUncontradicted ==
    last.op = "patchWithNewInterpretation" =>
        /\ ReplacementDone
        /\ \A f \in pre.facts :
               (headSymbol(f) # last.sym
                    /\ Complement(f) \notin elements(last.facts)) =>
                   f \in mgr.facts

\* a replacement that purged a prior fact headed by the symbol, added a
\* fact, and kept a prior fact headed by another symbol
C8_Witness ==
    /\ last.op = "patchWithNewInterpretation"
    /\ last.outcome = "ok"
    /\ \E f \in pre.facts : headSymbol(f) = last.sym /\ f \notin mgr.facts
    /\ \E f \in elements(last.facts) : f \in mgr.facts /\ f \notin pre.facts
    /\ \E f \in pre.facts :
           /\ headSymbol(f) # last.sym
           /\ f \notin elements(last.facts)
           /\ f \in mgr.facts

\* the state index is one of the parsed trace of the file
ValidStateNum(f, n) ==
    /\ ParsedFiles[f].outcome = "ok"
    /\ n \in 0..(Len(ParsedFiles[f].self.stateList) - 1)

\* C9: patchFromTrace with a valid state index invokes CWA completion
\* exactly once, on the state at that index, with the union of the
\* propositions of every state of the trace, and then merges that completed
\* state, and nothing else, into InitState.
C9_CompletionOnFullUniverse ==
    [][\A f \in PatchFiles, n \in StateNums :
           (ValidStateNum(f, n) /\ PatchWithFFOutput(f, n)) =>
               LET trace == ParsedFiles[f].self.stateList
               IN  /\ last'.outcome = "ok"
                   /\ Len(calls') = 2
                   /\ IsCall(calls'[1], "state", "makeCWAExplicit")
                   /\ calls'[1].arg = trace[n + 1]
                   /\ calls'[1].univ = UNION {trace[i] : i \in 1..Len(trace)}
                   /\ IsCall(calls'[2], "mgr", "patchInitState")
                   /\ calls'[2].arg = completed(calls'[1])]_vars

----------------------------------------------------------------------------
(* Properties of file access, under SpecIO *)

\* C10: on every exit path of the file read helper the cleanup block closes
\* the handle if one was opened and raises no error itself, so that an IO
\* failure always ends in the process exit and in no other error.
C10_IOFailureExits ==
    (last.op = "tryIO" /\ last.mode \in {"read", "write"}) =>
        /\ last.opened => last.closed
        /\ last.outcome # "UnboundLocalError"
        /\ fileOf(fs, last.fname).status # "ok" => last.outcome = "SystemExit"
        /\ fileOf(fs, last.fname).status = "ok" => last.outcome = "ok"

\* The part of C10 the code keeps: a handle that was opened is closed, and a
\* failure after the file was opened ends in the process exit.
OpenedHandleClosed ==
    (last.op = "tryIO" /\ last.mode \in {"read", "write"}) =>
        /\ last.opened => last.closed
        /\ fileOf(fs, last.fname).status = "iofail" => last.outcome = "SystemExit"
        /\ fileOf(fs, last.fname).status = "ok" => last.outcome = "ok"

====
